---- MODULE Spec2Model ----
(***************************************************************************)
(* Model of blogger-auto-post: the command line entry point (src/main.py)  *)
(* and the BloggerAPI class (src/lib/blogger_api.py): construction, the    *)
(* OAuth2 token lifecycle of authenticate, read_csv, create_post and the   *)
(* best-effort loop of batch_post_from_csv.                                *)
(*                                                                         *)
(* Text is a sequence of one-character strings, so that split and strip    *)
(* are computed character by character.                                    *)
(***************************************************************************)
EXTENDS Integers, Sequences, FiniteSets, TLC

\* ------------------------------------------------------------------ bounds
MaxRows == 2
MaxLabelLen == 2
MaxLabelRows == 1

\* ------------------------------------------------------- configuration
None == "None"

\* os.getenv of the three variables: a value or None
CredentialsFileEnv == {None, "credentials.json"}
TokenFileEnv == {None, "token.pickle"}
BlogIdEnv == {None, "blog-1"}

\* argparse defaults of --title-column / --content-column
title_column == "title"
content_column == "content"
\* --labels-column: the default, or an empty string given on the command line
LabelsColumnArgs == {"labels", ""}

\* ------------------------------------------------------------ tokens
\* A Credentials object: where it came from and the three properties
\* authenticate reads.  valid means "has an access token and is not expired".
NoCreds == [origin |-> "none", valid |-> FALSE, expired |-> FALSE, refresh_token |-> FALSE]

StoredTokens ==
    { [origin |-> "stored", valid |-> TRUE,  expired |-> FALSE, refresh_token |-> TRUE],
      [origin |-> "stored", valid |-> FALSE, expired |-> TRUE,  refresh_token |-> TRUE],
      [origin |-> "stored", valid |-> FALSE, expired |-> TRUE,  refresh_token |-> FALSE],
      [origin |-> "stored", valid |-> FALSE, expired |-> FALSE, refresh_token |-> FALSE] }

\* What the token file path holds on disk: nothing, bytes pickle cannot
\* load, or a pickled token.
Absent == [origin |-> "absent", valid |-> FALSE, expired |-> FALSE, refresh_token |-> FALSE]
Corrupt == [origin |-> "corrupt", valid |-> FALSE, expired |-> FALSE, refresh_token |-> FALSE]
TokenFileContents == {Absent, Corrupt} \cup StoredTokens

RefreshedToken == [origin |-> "refreshed", valid |-> TRUE, expired |-> FALSE, refresh_token |-> TRUE]
FlowToken == [origin |-> "flow", valid |-> TRUE, expired |-> FALSE, refresh_token |-> TRUE]

NoService == [built |-> FALSE, creds |-> NoCreds]

\* creds.refresh(Request()): success, RefreshError, or any other exception
RefreshOutcomes == {"ok", "RefreshError", "TransportError"}
\* flow.run_local_server / from_client_secrets_file: success or an exception
FlowOutcomes == {"ok", "FlowError"}
\* build('blogger', 'v3', credentials=creds): success or an exception
BuildOutcomes == {"ok", "BuildError"}
\* request.execute(): a response or an exception
ExecuteOutcomes == {"ok", "HttpError"}

\* ------------------------------------------------------------ text
Space == " "
Comma == ","

RECURSIVE lstrip(_)
lstrip(s) == IF s # <<>> /\ Head(s) = Space THEN lstrip(Tail(s)) ELSE s

RECURSIVE rstrip(_)
rstrip(s) ==
    IF s # <<>> /\ s[Len(s)] = Space THEN rstrip(SubSeq(s, 1, Len(s) - 1)) ELSE s

\* strip that forgets the right-hand side
stripLeftOnly(s) == lstrip(s)

\* str.strip()
strip(s) == rstrip(lstrip(s))

\* str.split(','): scan left to right, cur is the piece being collected
RECURSIVE splitFrom(_, _)
splitFrom(s, cur) ==
    IF s = <<>> THEN <<cur>>
    ELSE IF Head(s) = Comma THEN <<cur>> \o splitFrom(Tail(s), <<>>)
    ELSE splitFrom(Tail(s), Append(cur, Head(s)))

split(s) == splitFrom(s, <<>>)

\* [label.strip() for label in value.split(',')]
ParseLabels(s) == [k \in 1..Len(split(s)) |-> strip(split(s)[k])]

\* --------------------------------------------------------- cell values
\* A value of a record produced by DataFrame.to_dict('records')
StrVal(s) == [kind |-> "str", s |-> s, n |-> 0]
NaN == [kind |-> "nan", s |-> <<>>, n |-> 0]
NumVal(n) == [kind |-> "num", s |-> <<>>, n |-> n]

\* Python truth value: '' and 0 are false, NaN and everything else true
Truthy(v) ==
    CASE v.kind = "str" -> v.s # <<>>
      [] v.kind = "num" -> v.n # 0
      [] OTHER -> TRUE

\* isinstance(v, str)
IsStr(v) == v.kind = "str"

\* ------------------------------------------------------------ CSV files
Columns == {"title", "content", "labels"}

\* headers of the files read: all columns, no labels column, no content
\* column, no title column
Headers ==
    { {"title", "content", "labels"}, {"title", "content"},
      {"title", "labels"}, {"content"} }

TitleCells == { <<>>, <<"0">>, <<"t">> }
ContentCells == { <<>>, <<"c">> }

\* the label text of the documentation: "a, b ,c"
ExampleLabels == <<"a", ",", " ", "b", " ", ",", "c">>

LabelAlphabet == {"a", Comma, Space}
TextsUpTo(n) == UNION { [1..k -> LabelAlphabet] : k \in 0..n }

\* label cells of the whole-program runs, and of the label-parsing runs
FewLabelCells == { <<>>, <<"a", Comma, "a">> }
LabelCells == TextsUpTo(MaxLabelLen) \cup {ExampleLabels}

RowsOver(h, titles, contents, labels) ==
    { f \in [h -> titles \cup contents \cup labels] :
        /\ "title" \in h => f["title"] \in titles
        /\ "content" \in h => f["content"] \in contents
        /\ "labels" \in h => f["labels"] \in labels }

Table(h, rows) == [state |-> "ok", header |-> h, rows |-> rows]
MissingFile == [state |-> "missing", header |-> {}, rows |-> <<>>]
MalformedFile == [state |-> "malformed", header |-> {}, rows |-> <<>>]

TablesOver(hs, titles, contents, labels, maxRows) ==
    UNION { { Table(h, rows) :
                rows \in UNION { [1..n -> RowsOver(h, titles, contents, labels)] :
                                   n \in 0..maxRows } } : h \in hs }

CsvFiles ==
    {MissingFile, MalformedFile}
        \cup TablesOver(Headers, TitleCells, ContentCells, FewLabelCells, MaxRows)

LabelCsvFiles ==
    TablesOver({Columns, {"title", "content"}}, {<<"t">>}, {<<"c">>}, LabelCells,
               MaxLabelRows)

\* pandas type inference: a column whose fields are all numbers or empty is
\* numeric, any other column holds objects
IsNumberText(s) == s = <<"0">>

IsNumericColumn(rows, c) ==
    \A i \in 1..Len(rows) : rows[i][c] = <<>> \/ IsNumberText(rows[i][c])

\* pd.read_csv: an empty field is NaN; a field of a numeric column is its
\* number; any other field is its text
CellValue(rows, i, c) ==
    IF rows[i][c] = <<>> THEN NaN
    ELSE IF IsNumericColumn(rows, c) THEN NumVal(0)
    ELSE StrVal(rows[i][c])

\* df.to_dict('records'): one mapping per row, each over all the columns
ToRecords(file) ==
    [i \in 1..Len(file.rows) |-> [c \in file.header |-> CellValue(file.rows, i, c)]]

\* a pre-flight check that only looks for an empty sequence
ValidationFailsEmptyOnly(ps) == ps = <<>>

\* the pre-flight check of batch_post_from_csv
ValidationFails(ps) ==
    \/ ps = <<>>
    \/ title_column \notin DOMAIN ps[1]
    \/ content_column \notin DOMAIN ps[1]

\* labels as batch_post_from_csv passes them: given is FALSE for None
NoLabels == [given |-> FALSE, list |-> <<>>]

LabelsOf(post, lc) ==
    IF lc # "" /\ lc \in DOMAIN post /\ Truthy(post[lc]) /\ IsStr(post[lc])
    THEN [given |-> TRUE, list |-> ParseLabels(post[lc].s)]
    ELSE NoLabels

\* create_post: "if labels:" puts a non-empty list into the post body
PostBody(title, content, labels) ==
    [title |-> title, content |-> content,
     hasLabels |-> labels.given /\ labels.list # <<>>,
     labels |-> IF labels.given /\ labels.list # <<>> THEN labels.list ELSE <<>>]

\* create_post: the two argument checks before any request is built
CreateRejects(svc, title, content) ==
    \/ ~svc.built
    \/ ~Truthy(title)
    \/ ~Truthy(content)

\* ------------------------------------------------------------ state
VARIABLES
    caller,            \* "main": the CLI; "library": batch without authenticate
    credentials_file, token_file, blog_id,   \* BloggerAPI fields
    labels_column, is_draft,                 \* arguments of the batch
    credFileExists,    \* os.path.exists(credentials_file)
    tokenFile,         \* content of the token file
    tokenFile0,        \* its content when the program started
    creds,             \* local of authenticate
    service,           \* BloggerAPI.service
    pc,                \* position in main
    error,             \* the exception that ended the run, or None
    exitCode,          \* return value of main, -1 while it has not returned
    steps,             \* top-level steps that have succeeded
    refreshCalls, flowCalls, tokenWrites,
    posts, idx, responses,                   \* locals of batch_post_from_csv
    requests,          \* requests sent to the remote API, in order
    inFlight,          \* requests sent and not yet answered
    createCalls, createFails, returned

vars == << caller, credentials_file, token_file, blog_id, labels_column, is_draft,
           credFileExists, tokenFile, tokenFile0, creds, service, pc, error,
           exitCode, steps, refreshCalls, flowCalls, tokenWrites, posts, idx,
           responses, requests, inFlight, createCalls, createFails, returned >>

configVars == << caller, credentials_file, token_file, blog_id, labels_column,
                 is_draft, credFileExists, tokenFile0 >>
authVars == << tokenFile, creds, service, refreshCalls, flowCalls, tokenWrites >>
batchVars == << posts, idx, responses, requests, inFlight, createCalls,
                createFails, returned >>

InitProgram ==
    /\ creds = NoCreds
    /\ service = NoService
    /\ pc = "construct"
    /\ error = None
    /\ exitCode = -1
    /\ steps = {}
    /\ refreshCalls = 0 /\ flowCalls = 0 /\ tokenWrites = 0
    /\ posts = <<>> /\ idx = 0 /\ responses = <<>> /\ requests = <<>>
    /\ inFlight = 0 /\ createCalls = 0 /\ createFails = 0 /\ returned = FALSE

Init ==
    /\ caller \in {"main", "library"}
    /\ credentials_file \in CredentialsFileEnv
    /\ token_file \in TokenFileEnv
    /\ blog_id \in BlogIdEnv
    /\ labels_column \in LabelsColumnArgs
    /\ is_draft \in BOOLEAN
    /\ credFileExists \in BOOLEAN
    /\ tokenFile \in TokenFileContents
    /\ tokenFile0 = tokenFile
    /\ InitProgram

\* an exception that main does not catch
RaiseUncaught(e) ==
    /\ error' = e
    /\ pc' = "done"
    /\ exitCode' = exitCode

\* an exception leaves the call; main catches it and returns 1
Raise(e) ==
    /\ error' = e
    /\ pc' = "done"
    /\ exitCode' = IF caller = "main" THEN 1 ELSE exitCode

\* BloggerAPI.__init__
Construct ==
    /\ pc = "construct"
    /\ IF credentials_file = None \/ blog_id = None
       THEN /\ Raise("ValueError: configuration")
            /\ UNCHANGED steps
       ELSE /\ pc' = IF caller = "main" THEN "auth_load" ELSE "batch_read"
            /\ steps' = steps \cup {"config"}
            /\ UNCHANGED << error, exitCode >>
    /\ UNCHANGED << configVars, authVars, batchVars >>

\* a load step that drops the token it has read
AuthLoadIgnoresToken ==
    /\ pc = "auth_load"
    /\ IF token_file = None
       THEN /\ Raise("TypeError")
            /\ UNCHANGED creds
       ELSE /\ creds' = NoCreds
            /\ pc' = "auth_refresh"
            /\ UNCHANGED << error, exitCode >>
    /\ UNCHANGED << configVars, tokenFile, service, refreshCalls, flowCalls,
                    tokenWrites, steps, batchVars >>

\* authenticate: load the token file
AuthLoad ==
    /\ pc = "auth_load"
    /\ IF token_file = None
       THEN /\ Raise("TypeError")
            /\ UNCHANGED creds
       ELSE /\ creds' = IF tokenFile \in StoredTokens THEN tokenFile ELSE NoCreds
            /\ pc' = IF creds' = NoCreds \/ ~creds'.valid
                     THEN "auth_refresh" ELSE "auth_build"
            /\ UNCHANGED << error, exitCode >>
    /\ UNCHANGED << configVars, tokenFile, service, refreshCalls, flowCalls,
                    tokenWrites, steps, batchVars >>

\* authenticate: refresh an expired token that has a refresh token
AuthRefresh ==
    /\ pc = "auth_refresh"
    /\ IF creds # NoCreds /\ creds.expired /\ creds.refresh_token
       THEN /\ refreshCalls' = refreshCalls + 1
            /\ \E o \in RefreshOutcomes :
                 CASE o = "ok" ->
                        /\ creds' = RefreshedToken
                        /\ pc' = "auth_flow"
                        /\ UNCHANGED << error, exitCode >>
                   [] o = "RefreshError" ->
                        /\ creds' = NoCreds
                        /\ pc' = "auth_flow"
                        /\ UNCHANGED << error, exitCode >>
                   [] OTHER ->
                        /\ Raise(o)
                        /\ UNCHANGED creds
       ELSE /\ pc' = "auth_flow"
            /\ UNCHANGED << creds, refreshCalls, error, exitCode >>
    /\ UNCHANGED << configVars, tokenFile, service, flowCalls, tokenWrites,
                    steps, batchVars >>

\* authenticate: without a token, run the interactive flow
AuthFlow ==
    /\ pc = "auth_flow"
    /\ IF creds = NoCreds
       THEN IF ~credFileExists
            THEN /\ Raise("FileNotFoundError: credentials")
                 /\ UNCHANGED << creds, flowCalls >>
            ELSE /\ flowCalls' = flowCalls + 1
                 /\ \E o \in FlowOutcomes :
                      IF o = "ok"
                      THEN /\ creds' = FlowToken
                           /\ pc' = "auth_save"
                           /\ UNCHANGED << error, exitCode >>
                      ELSE /\ Raise(o)
                           /\ UNCHANGED creds
       ELSE /\ pc' = "auth_save"
            /\ UNCHANGED << creds, flowCalls, error, exitCode >>
    /\ UNCHANGED << configVars, tokenFile, service, refreshCalls, tokenWrites,
                    steps, batchVars >>

\* authenticate: save the credentials for the next run
AuthSave ==
    /\ pc = "auth_save"
    /\ tokenFile' = creds
    /\ tokenWrites' = tokenWrites + 1
    /\ pc' = "auth_build"
    /\ UNCHANGED << configVars, creds, service, refreshCalls, flowCalls, error,
                    exitCode, steps, batchVars >>

\* authenticate: build the service
AuthBuild ==
    /\ pc = "auth_build"
    /\ \E o \in BuildOutcomes :
         IF o = "ok"
         THEN /\ service' = [built |-> TRUE, creds |-> creds]
              /\ steps' = steps \cup {"auth"}
              /\ pc' = "batch_read"
              /\ UNCHANGED << error, exitCode >>
         ELSE /\ Raise(o)
              /\ UNCHANGED << service, steps >>
    /\ UNCHANGED << configVars, tokenFile, creds, refreshCalls, flowCalls,
                    tokenWrites, batchVars >>

\* batch_post_from_csv: read_csv and the pre-flight check
ReadCsvFrom(files) ==
    /\ pc = "batch_read"
    /\ \E file \in files :
         CASE file.state = "missing" ->
                /\ Raise("FileNotFoundError: csv")
                /\ UNCHANGED << posts, idx, steps >>
           [] file.state = "malformed" ->
                /\ Raise("ParserError")
                /\ UNCHANGED << posts, idx, steps >>
           [] OTHER ->
                /\ posts' = ToRecords(file)
                /\ IF ValidationFails(posts')
                   THEN /\ Raise("ValueError: columns")
                        /\ steps' = steps \cup {"read"}
                        /\ UNCHANGED idx
                   ELSE /\ pc' = "batch_loop"
                        /\ idx' = 1
                        /\ steps' = steps \cup {"read", "validate"}
                        /\ UNCHANGED << error, exitCode >>
    /\ UNCHANGED << configVars, authVars, responses, requests, inFlight,
                    createCalls, createFails, returned >>

ReadCsv == ReadCsvFrom(CsvFiles)

\* the except clause of the loop: log and continue with the next record
ContinueAfterFailure ==
    /\ createFails' = createFails + 1
    /\ idx' = idx + 1
    /\ pc' = "batch_loop"
    /\ UNCHANGED << error, exitCode, responses >>

\* one record of the loop, up to the request create_post sends
\* (the two lookups of the record are outside the try block, so a missing
\* key would leave the loop; create_post's own exceptions are caught)
BatchIssue ==
    /\ pc = "batch_loop"
    /\ idx <= Len(posts)
    /\ LET post == posts[idx] IN
       IF title_column \notin DOMAIN post \/ content_column \notin DOMAIN post
       THEN /\ Raise("KeyError")
            /\ UNCHANGED << idx, requests, inFlight, createCalls, createFails >>
       ELSE LET title == post[title_column]
                content == post[content_column]
                labels == LabelsOf(post, labels_column)
            IN /\ createCalls' = createCalls + 1
               /\ IF CreateRejects(service, title, content)
                  THEN /\ ContinueAfterFailure
                       /\ UNCHANGED << requests, inFlight >>
                  ELSE /\ requests' = Append(requests,
                                        [row |-> idx, blogId |-> blog_id,
                                         body |-> PostBody(title, content, labels),
                                         isDraft |-> is_draft,
                                         creds |-> service.creds])
                       /\ inFlight' = inFlight + 1
                       /\ pc' = "batch_wait"
                       /\ UNCHANGED << idx, error, exitCode, createFails >>
    /\ UNCHANGED << configVars, authVars, posts, responses, steps, returned >>

\* a loop without the except clause: a failed create call ends the batch
BatchCompleteAborts ==
    /\ pc = "batch_wait"
    /\ inFlight' = inFlight - 1
    /\ \E o \in ExecuteOutcomes :
         IF o = "ok"
         THEN /\ responses' = Append(responses, [row |-> idx])
              /\ idx' = idx + 1
              /\ pc' = "batch_loop"
              /\ UNCHANGED << error, exitCode, createFails >>
         ELSE /\ Raise(o)
              /\ createFails' = createFails + 1
              /\ UNCHANGED << idx, responses >>
    /\ UNCHANGED << configVars, authVars, posts, requests, createCalls, steps,
                    returned >>

\* request.execute() returns or raises; the loop appends or continues
BatchComplete ==
    /\ pc = "batch_wait"
    /\ inFlight' = inFlight - 1
    /\ \E o \in ExecuteOutcomes :
         IF o = "ok"
         THEN /\ responses' = Append(responses, [row |-> idx])
              /\ idx' = idx + 1
              /\ pc' = "batch_loop"
              /\ UNCHANGED << error, exitCode, createFails >>
         ELSE ContinueAfterFailure
    /\ UNCHANGED << configVars, authVars, posts, requests, createCalls, steps,
                    returned >>

\* the loop is over: batch_post_from_csv returns and main returns 0
BatchReturn ==
    /\ pc = "batch_loop"
    /\ idx > Len(posts)
    /\ returned' = TRUE
    /\ pc' = "done"
    /\ exitCode' = IF caller = "main" THEN 0 ELSE exitCode
    /\ UNCHANGED << configVars, authVars, posts, idx, responses, requests,
                    inFlight, createCalls, createFails, error, steps >>

Next ==
    \/ Construct
    \/ AuthLoad
    \/ AuthRefresh
    \/ AuthFlow
    \/ AuthSave
    \/ AuthBuild
    \/ ReadCsv
    \/ BatchIssue
    \/ BatchComplete
    \/ BatchReturn

Spec == Init /\ [][Next]_vars

\* ------------------------------------------------ label-parsing runs
\* The CLI with a valid stored token, over files whose label fields range
\* over every text of the label alphabet up to MaxLabelLen.
InitLabels ==
    /\ caller = "main"
    /\ credentials_file = "credentials.json"
    /\ token_file = "token.pickle"
    /\ blog_id = "blog-1"
    /\ labels_column \in LabelsColumnArgs
    /\ is_draft \in BOOLEAN
    /\ credFileExists = TRUE
    /\ tokenFile \in {t \in StoredTokens : t.valid}
    /\ tokenFile0 = tokenFile
    /\ InitProgram

ReadLabelCsv == ReadCsvFrom(LabelCsvFiles)

NextLabels ==
    \/ Construct
    \/ AuthLoad
    \/ AuthBuild
    \/ ReadLabelCsv
    \/ BatchIssue
    \/ BatchComplete
    \/ BatchReturn

SpecLabels == InitLabels /\ [][NextLabels]_vars

\* ------------------------------------------------------------ properties
AuthPcs == {"construct", "auth_load", "auth_refresh", "auth_flow", "auth_save",
            "auth_build"}

\* C1: once the pre-flight check has passed, the loop calls create_post for
\* every record and never ends in an exception; with K failed calls the
\* result has N-K entries.
C1_AllRecordsProcessed ==
    "validate" \in steps =>
        /\ error = None
        /\ pc = "done" =>
             /\ returned
             /\ createCalls = Len(posts)
             /\ Len(responses) = Len(posts) - createFails

C1_Witness ==
    /\ pc = "done" /\ returned
    /\ Len(posts) >= 2
    /\ createFails >= 1
    /\ Len(responses) >= 1

\* C2: an empty record sequence, or a first record without the title or the
\* content column, ends batch_post_from_csv in the validation error before
\* any create call or request.
C2_PreflightValidation ==
    ( /\ "read" \in steps
      /\ \/ posts = <<>>
         \/ "title" \notin DOMAIN posts[1]
         \/ "content" \notin DOMAIN posts[1] )
    => /\ pc = "done"
       /\ error = "ValueError: columns"
       /\ ~returned
       /\ createCalls = 0
       /\ requests = <<>>

C2_Witness ==
    /\ error = "ValueError: columns"
    /\ service.built
    /\ posts # <<>>
    /\ "title" \notin DOMAIN posts[1]

\* C3: with a valid token in the token file, authenticate neither refreshes
\* nor runs the interactive flow, builds the client from that token (only
\* the construction of the client itself can fail), and every create
\* request goes to the configured blog.
C3_ValidTokenNoFlow ==
    ( /\ caller = "main"
      /\ "config" \in steps
      /\ token_file # None
      /\ tokenFile0 \in StoredTokens
      /\ tokenFile0.valid )
    => /\ refreshCalls = 0
       /\ flowCalls = 0
       /\ pc \notin {"auth_refresh", "auth_flow", "auth_save"}
       /\ (pc = "done" /\ "auth" \notin steps) => error = "BuildError"
       /\ "auth" \in steps => service = [built |-> TRUE, creds |-> tokenFile0]
       /\ \A k \in 1..Len(requests) : requests[k].blogId = "blog-1"

C3_Witness ==
    /\ caller = "main"
    /\ tokenFile0 \in StoredTokens /\ tokenFile0.valid
    /\ service.built
    /\ requests # <<>>

\* C4 (as claimed): without a credentials file and without a valid token in
\* the token file, authenticate ends in the missing-credentials error and
\* builds no client.
C4_MissingCredentialsClaim ==
    ( /\ caller = "main"
      /\ "config" \in steps
      /\ token_file # None
      /\ ~credFileExists
      /\ ~(tokenFile0 \in StoredTokens /\ tokenFile0.valid)
      /\ pc \notin AuthPcs )
    => /\ error = "FileNotFoundError: credentials"
       /\ ~service.built

\* C5 (as claimed): the client is only ever built from a valid token.
C5_ClientTokenValidClaim ==
    service.built => service.creds.valid

\* C6 (as claimed): with a token file path configured, authenticate fails
\* only for a missing credentials file, a failed interactive flow or a
\* failed client construction.
C6_AuthFailureCausesClaim ==
    ( /\ caller = "main"
      /\ "config" \in steps
      /\ token_file # None
      /\ pc = "done"
      /\ "auth" \notin steps )
    => error \in {"FileNotFoundError: credentials", "FlowError", "BuildError"}

\* C7: main returns 0 exactly when construction, authentication, reading and
\* validation all succeeded, whatever the create calls did, and 1 otherwise;
\* every exception ends in a return value.
C7_ExitCode ==
    caller = "main" =>
        /\ pc # "done" => exitCode = -1
        /\ pc = "done" =>
             /\ exitCode \in {0, 1}
             /\ exitCode = 0 <=> steps = {"config", "auth", "read", "validate"}
             /\ exitCode = 1 <=> error # None

C7_Witness ==
    /\ caller = "main"
    /\ pc = "done"
    /\ exitCode = 0
    /\ Len(posts) >= 2
    /\ createFails = Len(posts)

\* C8 (as claimed): after authenticate has returned the token file holds the
\* token of the client; the file is written only with a token a refresh or
\* the interactive flow produced, and not at all when the stored token was
\* valid or authenticate failed before it had a token.
C8_TokenFileClaim ==
    /\ "auth" \in steps => tokenFile = service.creds
    /\ tokenWrites > 0 => tokenFile.origin \in {"refreshed", "flow"}
    /\ (tokenFile0 \in StoredTokens /\ tokenFile0.valid) =>
            tokenWrites = 0 /\ tokenFile = tokenFile0
    /\ (pc = "done" /\ "auth" \notin steps /\ error # "BuildError") =>
            tokenWrites = 0 /\ tokenFile = tokenFile0

\* C9: the labels of a request are the comma-separated pieces of the labels
\* field, each without leading and trailing blanks, in order, when a labels
\* column is configured, present and holds a non-empty string; otherwise the
\* request has no labels.  "a, b ,c" gives a, b, c.
C9_Labels ==
    \A k \in 1..Len(requests) :
        LET r == requests[k]
            post == posts[r.row]
            has == /\ labels_column # ""
                   /\ labels_column \in DOMAIN post
                   /\ post[labels_column].kind = "str"
                   /\ post[labels_column].s # <<>>
            text == post[labels_column].s
            commas == {p \in 1..Len(text) : text[p] = ","}
            n == Cardinality(commas)
            KthComma(j) ==
                CHOOSE p \in commas : Cardinality({q \in commas : q < p}) = j - 1
            Seg(j) ==
                SubSeq(text,
                       IF j = 1 THEN 1 ELSE KthComma(j - 1) + 1,
                       IF j = n + 1 THEN Len(text) ELSE KthComma(j) - 1)
            IsTrimOf(t, seg) ==
                \E a, b \in 0..Len(seg) :
                    /\ a + b <= Len(seg)
                    /\ t = SubSeq(seg, a + 1, Len(seg) - b)
                    /\ \A i \in 1..a : seg[i] = " "
                    /\ \A i \in (Len(seg) - b + 1)..Len(seg) : seg[i] = " "
                    /\ t = <<>> \/ (t[1] # " " /\ t[Len(t)] # " ")
        IN  IF has
            THEN /\ r.body.hasLabels
                 /\ Len(r.body.labels) = n + 1
                 /\ \A j \in 1..(n + 1) : IsTrimOf(r.body.labels[j], Seg(j))
                 /\ text = ExampleLabels =>
                        r.body.labels = << <<"a">>, <<"b">>, <<"c">> >>
            ELSE ~r.body.hasLabels

C9_Witness ==
    \E k \in 1..Len(requests) :
        /\ labels_column = "labels"
        /\ "labels" \in DOMAIN posts[requests[k].row]
        /\ posts[requests[k].row]["labels"] = StrVal(ExampleLabels)
        /\ requests[k].body.labels = << <<"a">>, <<"b">>, <<"c">> >>

\* C10 (as claimed): at most one request is in flight; requests follow the
\* order of the records, at most one per record; no request is sent for a
\* record whose title or content is empty or while the client is not
\* authenticated; the results keep the order of their records.
C10_SequentialClaim ==
    /\ inFlight <= 1
    /\ \A j, k \in 1..Len(requests) : j < k => requests[j].row < requests[k].row
    /\ \A k \in 1..Len(requests) :
         LET post == posts[requests[k].row]
             Empty(v) == v.kind = "nan" \/ (v.kind = "str" /\ v.s = <<>>)
         IN /\ ~Empty(post["title"])
            /\ ~Empty(post["content"])
            /\ service.built
    /\ \A j, k \in 1..Len(responses) : j < k => responses[j].row < responses[k].row
    /\ \A k \in 1..Len(responses) :
         \E j \in 1..Len(requests) : requests[j].row = responses[k].row

====
